---- MODULE Spec2Model ----
(***************************************************************************)
(* Model of the todo REST service (src/app): the request handlers of       *)
(* main.py, the store operations of crud.py, the request/response schemas  *)
(* of schemas.py and the todos table of models.py on SQLite.               *)
(*                                                                         *)
(* A text is a sequence of tokens, each token standing for a run of        *)
(* characters.  An Optional value is a set with at most one element:       *)
(* None is {} and a present value v is {v}.                                *)
(***************************************************************************)
EXTENDS Integers, Sequences, FiniteSets, TLC

VARIABLES todos, pre, req, resp, issued, nops

vars == <<todos, pre, req, resp, issued, nops>>

(* ------------------------------ bounds --------------------------------- *)
\* number of requests served in one behaviour
MaxOps == 3
\* largest number of rows the table holds when the paging runs start
MaxRows == 260

(* ------------------------- program constants --------------------------- *)
DEFAULT_LIMIT == 100
MAX_LIMIT == 200

HTTP_200_OK == 200
HTTP_404_NOT_FOUND == 404
HTTP_422_UNPROCESSABLE_ENTITY == 422
HTTP_500_INTERNAL_SERVER_ERROR == 500

(* ------------------------------ values --------------------------------- *)
None == {}
Some(v) == {v}
Val(o) == CHOOSE v \in o : TRUE

Fields == {"title", "description", "completed"}

\* re.IGNORECASE: the case-folded form of a token
Lower(tok) ==
    CASE tok = "<SCRIPT" -> "<script"
      [] tok = "JavaScript:" -> "javascript:"
      [] tok = "OnError=" -> "onerror="
      [] OTHER -> tok

\* XSS_PATTERN.search(v): '<script.*?>' needs a '>' after '<script' with no
\* newline in between ('.' does not match a newline); the other three
\* alternatives match anywhere in the text.
XSS_PATTERN_CaseSensitive(v) ==
    \/ \E i \in 1..Len(v) :
          /\ v[i] = "<script"
          /\ \E j \in (i+1)..Len(v) :
                /\ v[j] = ">"
                /\ \A k \in (i+1)..(j-1) : v[k] # "\n"
    \/ \E i \in 1..Len(v) :
          v[i] \in {"onerror=", "javascript:", "data:text/html"}

XSS_PATTERN(v) ==
    \/ \E i \in 1..Len(v) :
          /\ Lower(v[i]) = "<script"
          /\ \E j \in (i+1)..Len(v) :
                /\ v[j] = ">"
                /\ \A k \in (i+1)..(j-1) : v[k] # "\n"
    \/ \E i \in 1..Len(v) :
          Lower(v[i]) \in {"onerror=", "javascript:", "data:text/html"}

\* TodoBase.validate_no_xss / TodoUpdate.validate_no_xss_update: TRUE when
\* the validator returns the value, FALSE when it raises ValueError
validate_no_xss(o) == o = None \/ ~XSS_PATTERN(Val(o))

(* ------------------------------ schemas -------------------------------- *)
\* A request body is the parsed JSON object: fields_set holds the keys that
\* are present (pydantic's __fields_set__), an absent key holds its default.
\* TodoCreate: title is a required str, description an Optional[str].
TodoCreate_valid(body) ==
    /\ "title" \in body.fields_set
    /\ body.title # None
    /\ validate_no_xss(body.title)
    /\ validate_no_xss(body.description)

\* TodoUpdate: every field Optional with default None; the validator runs on
\* title and description.
TodoUpdate_valid(body) ==
    /\ validate_no_xss(body.title)
    /\ validate_no_xss(body.description)

\* TodoInDB (response_model): title: str and completed: bool are required
\* and not nullable, and the inherited validator runs on the two texts.
TodoInDB_valid(rec) ==
    /\ rec.title # None
    /\ rec.completed # None
    /\ validate_no_xss(rec.title)
    /\ validate_no_xss(rec.description)

(* ------------------------------ the table ------------------------------ *)
\* The todos table is the sequence of its rows in primary-key order (the
\* order of the rowid b-tree); a row is [id, title, description, completed].
Ids(db) == {db[i].id : i \in 1..Len(db)}

Row(db, id) == db[CHOOSE i \in 1..Len(db) : db[i].id = id]

\* id = Column(Integer, primary_key=True) on SQLite is the rowid: a new row
\* gets the largest id in the table plus one.
NextId(db) == IF db = <<>> THEN 1 ELSE db[Len(db)].id + 1

(* ------------------------------- crud.py ------------------------------- *)
\* The result of a store function: ret is what it returns (None or the row),
\* db the table it leaves, faulted whether the backend fault was hit,
\* committed whether db.commit() was called.
Result(ret, db, faulted, committed) ==
    [ret |-> ret, db |-> db, faulted |-> faulted, committed |-> committed]

\* fault names the backend call that raises when the operation reaches it:
\* "query" (the SELECT), "commit" (flush and COMMIT), "refresh" (the SELECT
\* of db.refresh after a commit), or "none".
get_todo(db, todo_id, fault) ==
    IF todo_id <= 0 THEN Result(None, db, FALSE, FALSE)
    ELSE IF fault = "query" THEN Result(None, db, TRUE, FALSE)
    ELSE IF todo_id \in Ids(db)
         THEN Result(Some(Row(db, todo_id)), db, FALSE, FALSE)
         ELSE Result(None, db, FALSE, FALSE)

SanitizeSkip(skip) == IF skip < 0 THEN 0 ELSE skip

SanitizeLimit_NoMax(limit) == IF limit <= 0 THEN DEFAULT_LIMIT ELSE limit

SanitizeLimit(limit) ==
    IF limit <= 0 THEN DEFAULT_LIMIT
    ELSE IF limit > MAX_LIMIT THEN MAX_LIMIT ELSE limit

\* db.query(models.Todo).offset(skip).limit(limit).all()
OffsetLimit_NoOffset(rows, skip, limit) ==
    SubSeq(rows, 1, IF limit < Len(rows) THEN limit ELSE Len(rows))

OffsetLimit(rows, skip, limit) ==
    IF skip >= Len(rows) THEN <<>>
    ELSE SubSeq(rows, skip + 1,
                IF skip + limit < Len(rows) THEN skip + limit ELSE Len(rows))

\* get_todos returns a list: ret is that list
get_todos(db, skip, limit, fault) ==
    IF fault = "query" THEN Result(<<>>, db, TRUE, FALSE)
    ELSE Result(OffsetLimit(db, SanitizeSkip(skip), SanitizeLimit(limit)),
                db, FALSE, FALSE)

\* models.Todo(**todo.dict()): completed takes the column default False
NewRow_DropDescription(id, todo) ==
    [id |-> id, title |-> todo.title, description |-> None,
     completed |-> Some(FALSE)]

NewRow(id, todo) ==
    [id |-> id, title |-> todo.title, description |-> todo.description,
     completed |-> Some(FALSE)]

\* db.rollback() after a failed db.commit(): the table keeps the rows it
\* had when the transaction began, the pending writes are dropped
rollback_KeepPending(db, pending) == pending

rollback(db, pending) == db

crud_create_todo(db, todo, fault) ==
    LET row == NewRow(NextId(db), todo)
        db2 == Append(db, row)
    IN IF fault = "commit" THEN Result(None, rollback(db, db2), TRUE, TRUE)
       ELSE IF fault = "refresh" THEN Result(None, db2, TRUE, TRUE)
       ELSE Result(Some(row), db2, FALSE, TRUE)

\* for field, value in update_data.items(): setattr(db_todo, field, value)
SetAttrs_AllFields(row, todo) ==
    [id |-> row.id, title |-> todo.title, description |-> todo.description,
     completed |-> todo.completed]

SetAttrs(row, todo) ==
    [id |-> row.id,
     title |-> IF "title" \in todo.fields_set THEN todo.title ELSE row.title,
     description |-> IF "description" \in todo.fields_set
                     THEN todo.description ELSE row.description,
     completed |-> IF "completed" \in todo.fields_set
                   THEN todo.completed ELSE row.completed]

crud_update_todo(db, todo_id, todo, fault) ==
    IF todo_id <= 0 THEN Result(None, db, FALSE, FALSE)
    ELSE LET got == get_todo(db, todo_id, fault) IN
         IF got.ret = None THEN Result(None, db, got.faulted, FALSE)
         ELSE IF todo.fields_set = {} THEN Result(got.ret, db, FALSE, FALSE)
         ELSE LET row == SetAttrs(Val(got.ret), todo)
                  db2 == [i \in 1..Len(db) |->
                             IF db[i].id = todo_id THEN row ELSE db[i]]
              IN IF fault = "commit"
                 THEN Result(None, rollback(db, db2), TRUE, TRUE)
                 ELSE IF fault = "refresh" THEN Result(None, db2, TRUE, TRUE)
                 ELSE Result(Some(row), db2, FALSE, TRUE)

Remove_UpTo(db, id) == LET Keep(row) == row.id > id IN SelectSeq(db, Keep)

Remove(db, id) == LET Keep(row) == row.id # id IN SelectSeq(db, Keep)

crud_delete_todo(db, todo_id, fault) ==
    IF todo_id <= 0 THEN Result(None, db, FALSE, FALSE)
    ELSE LET got == get_todo(db, todo_id, fault) IN
         IF got.ret = None THEN Result(None, db, got.faulted, FALSE)
         ELSE IF fault = "commit"
              THEN Result(None, rollback(db, Remove(db, todo_id)), TRUE, TRUE)
         ELSE Result(got.ret, Remove(db, todo_id), FALSE, TRUE)

(* ------------------------------- main.py ------------------------------- *)
NoExc == 0

\* What a path operation function does: exc is the status of the
\* HTTPException it raises (NoExc when it returns), rows what it returns,
\* r the result of the store function it called.
Handled(exc, rows, r) == [exc |-> exc, rows |-> rows, r |-> r]

RowsOf(ret) == IF ret = None THEN <<>> ELSE <<Val(ret)>>

\* create_todo: crud returns None on a fault, then db_todo.id raises
\* AttributeError, which the handler turns into a 500
create_todo(db, todo, fault) ==
    LET r == crud_create_todo(db, todo, fault) IN
    Handled(IF r.ret = None THEN HTTP_500_INTERNAL_SERVER_ERROR ELSE NoExc,
            RowsOf(r.ret), r)

read_todos(db, skip, limit, fault) ==
    LET r == get_todos(db, skip, limit, fault) IN Handled(NoExc, r.ret, r)

read_todo(db, todo_id, fault) ==
    LET r == get_todo(db, todo_id, fault) IN
    Handled(IF r.ret = None THEN HTTP_404_NOT_FOUND ELSE NoExc, RowsOf(r.ret), r)

update_todo(db, todo_id, todo, fault) ==
    LET r == crud_update_todo(db, todo_id, todo, fault) IN
    Handled(IF r.ret = None THEN HTTP_404_NOT_FOUND ELSE NoExc, RowsOf(r.ret), r)

delete_todo(db, todo_id, fault) ==
    LET r == crud_delete_todo(db, todo_id, fault) IN
    Handled(IF r.ret = None THEN HTTP_404_NOT_FOUND ELSE NoExc, RowsOf(r.ret), r)

\* response_model=schemas.TodoInDB: a returned row that does not validate
\* raises a response validation error inside the request's exit stack
serialize_response(h) ==
    IF h.exc = NoExc /\ \E i \in 1..Len(h.rows) : ~TodoInDB_valid(h.rows[i])
    THEN HTTP_500_INTERNAL_SERVER_ERROR ELSE h.exc

\* get_db: an exception raised while the request is being served is thrown
\* into the generator at its yield; 'except Exception' catches it (an
\* HTTPException included) and raises HTTPException(500) in its place.
get_db(exc) == IF exc # NoExc THEN HTTP_500_INTERNAL_SERVER_ERROR ELSE NoExc

Response(status, body, faulted, committed) ==
    [status |-> status, body |-> body, faulted |-> faulted, committed |-> committed]

\* the response of a request that passed request validation
Served(h) ==
    LET exc == get_db(serialize_response(h)) IN
    IF exc # NoExc THEN Response(exc, <<>>, h.r.faulted, h.r.committed)
    ELSE Response(HTTP_200_OK, h.rows, h.r.faulted, h.r.committed)

\* request validation failed: FastAPI answers 422 and the path operation
\* function is not called
Unprocessable == Response(HTTP_422_UNPROCESSABLE_ENTITY, <<>>, FALSE, FALSE)

(* ------------------------------ requests ------------------------------- *)
TitleVals == { <<"a">>, <<>>, <<"<SCRIPT", "x", ">">>, <<"JavaScript:">> }
DescVals == { <<"<script", "x">>, <<"<script", "\n", ">">>, <<"x", "onerror=">>,
              <<"data:text/html">> }
UpdateTitleVals == { <<>>, <<"JavaScript:">> }
UpdateDescVals == { <<"x", "onerror=">> }
IdVals == (-1)..3
SkipVals == {-1, 0, 1}
LimitVals == {-1, 1, 2, 500}
PagingSizes == {0, 1, DEFAULT_LIMIT - 1, DEFAULT_LIMIT, DEFAULT_LIMIT + 1,
                MAX_LIMIT - 1, MAX_LIMIT, MAX_LIMIT + 1, MaxRows}
PagingSkipVals == {-1, 0, 1, 150, 250}
PagingLimitVals == {-1, 0, 1, 2, 99, 100, 150, 200, 201, 500}
BackendFaults == {"query", "commit", "refresh"}

OptOf(S) == {None} \cup {Some(v) : v \in S}

Body(fs, t, d, c) ==
    [fields_set |-> fs, title |-> t, description |-> d, completed |-> c]

\* the JSON objects over the given keys; a key that is absent holds None
Bodies(keys, titles, descs, completedVals) ==
    { b \in { Body(fs, t, d, c) : fs \in SUBSET keys, t \in OptOf(titles),
                                  d \in OptOf(descs), c \in completedVals } :
        /\ ("title" \notin b.fields_set => b.title = None)
        /\ ("description" \notin b.fields_set => b.description = None)
        /\ ("completed" \notin b.fields_set => b.completed = None) }

CreateBodies == Bodies({"title", "description"}, TitleVals, DescVals, {None})
UpdateBodies == Bodies(Fields, UpdateTitleVals, UpdateDescVals, OptOf(BOOLEAN))
PlainCreateBodies == Bodies({"title"}, {<<"a">>}, {}, {None})
PlainUpdateBodies == Bodies({"title", "completed"}, {<<>>}, {}, {Some(TRUE)})
EmptyBody == Body({}, None, None, None)

Request(op, id, body, skip, limit, fault) ==
    [op |-> op, id |-> id, body |-> body, skip |-> skip, limit |-> limit,
     fault |-> fault]

(* ------------------------------ behaviour ------------------------------ *)
Init ==
    /\ todos = <<>>
    /\ pre = <<>>
    /\ req = Request("init", 0, EmptyBody, 0, 0, "none")
    /\ resp = Response(0, <<>>, FALSE, FALSE)
    /\ issued = <<>>
    /\ nops = 0

\* a request is served: pre keeps the table as it was before the request,
\* issued the ids that successful creates have returned
Serve(request, response, db) ==
    /\ todos' = db
    /\ pre' = todos
    /\ req' = request
    /\ resp' = response
    /\ issued' = IF request.op = "create" /\ response.status = HTTP_200_OK
                 THEN Append(issued, response.body[1].id) ELSE issued
    /\ nops' = nops + 1

\* POST /todos/
Post(body, fault) ==
    IF TodoCreate_valid(body)
    THEN LET h == create_todo(todos, body, fault) IN
         Serve(Request("create", 0, body, 0, 0, fault), Served(h), h.r.db)
    ELSE Serve(Request("create", 0, body, 0, 0, "none"), Unprocessable, todos)

\* GET /todos/
GetList(skip, limit, fault) ==
    LET h == read_todos(todos, skip, limit, fault) IN
    Serve(Request("list", 0, EmptyBody, skip, limit, fault), Served(h), h.r.db)

\* GET /todos/{todo_id}
GetOne(id, fault) ==
    LET h == read_todo(todos, id, fault) IN
    Serve(Request("get", id, EmptyBody, 0, 0, fault), Served(h), h.r.db)

\* PUT /todos/{todo_id}
Put(id, body, fault) ==
    IF TodoUpdate_valid(body)
    THEN LET h == update_todo(todos, id, body, fault) IN
         Serve(Request("update", id, body, 0, 0, fault), Served(h), h.r.db)
    ELSE Serve(Request("update", id, body, 0, 0, "none"), Unprocessable, todos)

\* DELETE /todos/{todo_id}
Delete(id, fault) ==
    LET h == delete_todo(todos, id, fault) IN
    Serve(Request("delete", id, EmptyBody, 0, 0, fault), Served(h), h.r.db)

\* The service on a backend that does not fail.
CreateTodo == nops < MaxOps /\ \E body \in CreateBodies : Post(body, "none")

ReadTodos ==
    nops < MaxOps /\ \E skip \in SkipVals, limit \in LimitVals :
        GetList(skip, limit, "none")

ReadTodo == nops < MaxOps /\ \E id \in IdVals : GetOne(id, "none")

UpdateTodo ==
    nops < MaxOps /\ \E id \in IdVals, body \in UpdateBodies : Put(id, body, "none")

DeleteTodo == nops < MaxOps /\ \E id \in IdVals : Delete(id, "none")

Next == CreateTodo \/ ReadTodos \/ ReadTodo \/ UpdateTodo \/ DeleteTodo

Spec == Init /\ [][Next]_vars

\* The service on a backend whose calls may raise.
CreateTodoFault ==
    nops < MaxOps /\ \E body \in PlainCreateBodies, fault \in {"none"} \cup BackendFaults :
        Post(body, fault)

ReadTodosFault ==
    nops < MaxOps /\ \E skip \in SkipVals, limit \in LimitVals,
                        fault \in {"none"} \cup BackendFaults :
        GetList(skip, limit, fault)

ReadTodoFault ==
    nops < MaxOps /\ \E id \in IdVals, fault \in {"none"} \cup BackendFaults :
        GetOne(id, fault)

UpdateTodoFault ==
    nops < MaxOps /\ \E id \in IdVals, body \in PlainUpdateBodies,
                        fault \in {"none"} \cup BackendFaults :
        Put(id, body, fault)

DeleteTodoFault ==
    nops < MaxOps /\ \E id \in IdVals, fault \in {"none"} \cup BackendFaults :
        Delete(id, fault)

NextFault ==
    \/ CreateTodoFault \/ ReadTodosFault \/ ReadTodoFault
    \/ UpdateTodoFault \/ DeleteTodoFault

SpecFault == Init /\ [][NextFault]_vars

\* Paging runs: the table already holds n valid rows with ids 1..n (the
\* state n creates leave behind) and only list requests are served.
InitPaging ==
    /\ \E n \in PagingSizes :
          todos = [i \in 1..n |-> [id |-> i, title |-> Some(<<"a">>),
                                   description |-> None, completed |-> Some(FALSE)]]
    /\ pre = <<>>
    /\ req = Request("init", 0, EmptyBody, 0, 0, "none")
    /\ resp = Response(0, <<>>, FALSE, FALSE)
    /\ issued = <<>>
    /\ nops = 0

ReadTodosPaging ==
    nops < MaxOps /\ \E skip \in PagingSkipVals, limit \in PagingLimitVals :
        GetList(skip, limit, "none")

NextPaging == ReadTodosPaging

SpecPaging == InitPaging /\ [][NextPaging]_vars

(* ------------------------------- claims -------------------------------- *)
Range(seq) == {seq[i] : i \in 1..Len(seq)}
Succeeded == resp.status = HTTP_200_OK

\* C1: a get of the id that a successful create has just returned succeeds
\* and returns the submitted title and description with completed = false.
C1_CreateThenGet ==
    [][ ( /\ req.op = "create" /\ Succeeded
          /\ req'.op = "get" /\ req'.id = resp.body[1].id )
        => ( /\ resp'.status = HTTP_200_OK
             /\ resp'.body = << [id |-> resp.body[1].id,
                                 title |-> req.body.title,
                                 description |-> req.body.description,
                                 completed |-> Some(FALSE)] >> ) ]_vars

\* the second request of the run is a successful get of the id that the
\* first request, a create with a description, returned
C1_Witness ==
    /\ nops = 2 /\ req.op = "get" /\ Succeeded
    /\ issued = <<req.id>>
    /\ resp.body[1].description # None

\* C2 as claimed: no two successful creates return the same id, and get and
\* list report a stored row under the id it was created with.
C2_IdsNeverReused ==
    /\ \A i, j \in 1..Len(issued) : i # j => issued[i] # issued[j]
    /\ (req.op = "get" /\ Succeeded) =>
          /\ resp.body[1].id = req.id
          /\ resp.body[1] \in Range(pre)
    /\ (req.op = "list" /\ Succeeded) => Range(resp.body) \subseteq Range(pre)

\* C3: a successful update assigns exactly the fields present in the body,
\* keeps every other field, and no update changes the id of any row.
C3_UpdateFrame ==
    /\ req.op = "update" =>
          /\ Len(todos) = Len(pre)
          /\ \A i \in 1..Len(pre) : todos[i].id = pre[i].id
    /\ (req.op = "update" /\ Succeeded) =>
          /\ req.id \in Ids(pre)
          /\ LET old == Row(pre, req.id)
                 new == Row(todos, req.id)
             IN /\ \A f \in Fields :
                      new[f] = IF f \in req.body.fields_set
                               THEN req.body[f] ELSE old[f]
                /\ resp.body = <<new>>

\* update(id, {completed: true}) of a row that was not completed succeeded
C3_Witness ==
    /\ req.op = "update" /\ Succeeded
    /\ req.body.fields_set = {"completed"}
    /\ req.body.completed = Some(TRUE)
    /\ Row(pre, req.id).completed = Some(FALSE)
    /\ Row(todos, req.id).completed = Some(TRUE)
    /\ Row(todos, req.id).description # None

\* the update requests whose body passes request validation
ValidBody == req.op = "update" => TodoUpdate_valid(req.body)

\* C4 as claimed: a delete of an existing id succeeds, returns the row as
\* it was stored and removes it; a get, update or delete of an id that was
\* created and is no longer stored yields 404, and list does not return it.
C4_DeleteThenNotFound ==
    /\ (req.op = "delete" /\ req.id \in Ids(pre)) =>
          /\ Succeeded
          /\ resp.body = <<Row(pre, req.id)>>
          /\ req.id \notin Ids(todos)
    /\ ( /\ req.op \in {"get", "update", "delete"} /\ ValidBody
         /\ req.id \in Range(issued) /\ req.id \notin Ids(pre) ) =>
          resp.status = HTTP_404_NOT_FOUND
    /\ req.op = "list" =>
          \A i \in 1..Len(resp.body) : resp.body[i].id \in Ids(pre)

\* the denylist as the claim words it: '<script' anywhere in the text
C5_ClaimedDenylist(o) ==
    /\ o # None
    /\ \E i \in 1..Len(Val(o)) :
          Lower(Val(o)[i]) \in {"<script", "onerror=", "javascript:", "data:text/html"}

\* C5 as claimed: a create or update whose title or description contains
\* '<script', 'onerror=', 'javascript:' or 'data:text/html' in any case is
\* answered 422 and leaves the stored rows as they were.
C5_ClaimedDenylistRejected ==
    ( /\ req.op \in {"create", "update"}
      /\ C5_ClaimedDenylist(req.body.title) \/ C5_ClaimedDenylist(req.body.description) )
    => ( /\ resp.status = HTTP_422_UNPROCESSABLE_ENTITY
         /\ todos = pre )

\* the denylist as amended: '<script' counts only when a '>' follows it
\* before the end of the line
C5_Denylist(o) ==
    /\ o # None
    /\ LET v == Val(o)
           Tag(i) == Lower(v[i]) = "<script"
           Closes(i, j) == i < j /\ v[j] = ">" /\ ~\E k \in (i+1)..(j-1) : v[k] = "\n"
       IN \/ \E i, j \in 1..Len(v) : Tag(i) /\ Closes(i, j)
          \/ \E i \in 1..Len(v) : Lower(v[i]) = "onerror="
          \/ \E i \in 1..Len(v) : Lower(v[i]) = "javascript:"
          \/ \E i \in 1..Len(v) : Lower(v[i]) = "data:text/html"

\* C5 as amended: a create or update whose title or description contains,
\* in any case, '<script' followed on the same line by '>', or 'onerror=',
\* 'javascript:' or 'data:text/html', is answered 422 without any call to
\* the store, and the stored rows are the same afterwards.
C5_DenylistRejected ==
    ( /\ req.op \in {"create", "update"}
      /\ C5_Denylist(req.body.title) \/ C5_Denylist(req.body.description) )
    => ( /\ resp.status = HTTP_422_UNPROCESSABLE_ENTITY
         /\ ~resp.committed /\ ~resp.faulted
         /\ todos = pre )

\* a create with '<SCRIPT x>' as title was rejected while a row was stored
C5_Witness ==
    /\ req.op = "create"
    /\ req.body.title = Some(<<"<SCRIPT", "x", ">">>)
    /\ resp.status = HTTP_422_UNPROCESSABLE_ENTITY
    /\ Len(pre) > 0 /\ todos = pre

\* C6 as claimed: an operation that hit a backend fault is answered 500.
C6_FaultIs500 ==
    resp.faulted => resp.status = HTTP_500_INTERNAL_SERVER_ERROR

\* C7 as claimed: a get, update or delete of an id that is not positive or
\* has no stored row is answered 404 and leaves the store unchanged.
C7_BadIdIs404 ==
    ( /\ req.op \in {"get", "update", "delete"} /\ ValidBody
      /\ req.id <= 0 \/ req.id \notin Ids(pre) )
    => ( /\ resp.status = HTTP_404_NOT_FOUND
         /\ todos = pre )

\* the effective limit as the claim states it
C8_EffectiveLimit(limit) ==
    IF limit <= 0 THEN 100 ELSE IF limit > 200 THEN 200 ELSE limit

\* C8: list returns at most the effective limit of rows, and a negative
\* skip returns what skip = 0 returns.
C8_ListBounded ==
    req.op = "list" =>
        /\ Len(resp.body) <= C8_EffectiveLimit(req.limit)
        /\ req.skip < 0 =>
              resp.body = Served(read_todos(pre, 0, req.limit, req.fault)).body

\* list(skip <= 0, limit = 500) on a table of more than 200 rows returned
\* exactly 200 rows
C8_Witness ==
    /\ req.op = "list" /\ req.limit = 500 /\ req.skip <= 0
    /\ Len(pre) > 200
    /\ Len(resp.body) = 200

\* C9 as claimed: an update of an existing id with no field in the body
\* succeeds, returns the row unchanged and calls neither write nor commit.
C9_EmptyUpdateIsNoOp ==
    (req.op = "update" /\ req.body.fields_set = {} /\ req.id \in Ids(pre)) =>
        /\ Succeeded
        /\ resp.body = <<Row(pre, req.id)>>
        /\ ~resp.committed
        /\ todos = pre

\* C10 as claimed: a create without a title or with the empty title is
\* answered 422 and stores nothing; every row a create stores has a
\* non-empty title.
C10_EmptyTitleRejected ==
    req.op = "create" =>
        /\ ("title" \notin req.body.fields_set \/ req.body.title = Some(<<>>)) =>
              /\ resp.status = HTTP_422_UNPROCESSABLE_ENTITY
              /\ todos = pre
        /\ Len(todos) > Len(pre) =>
              todos[Len(todos)].title \notin {None, Some(<<>>)}

\* the rows a list of the table must return, told from the rows as a set:
\* ascending ids without a gap, after exactly max(skip, 0) stored rows, as
\* many as the effective limit allows
C11_InKeyOrder(body, rows, skip, limit) ==
    LET s == IF skip < 0 THEN 0 ELSE skip
        e == IF limit <= 0 THEN 100 ELSE IF limit > 200 THEN 200 ELSE limit
        rest == IF Cardinality(rows) > s THEN Cardinality(rows) - s ELSE 0
    IN /\ Len(body) = IF rest < e THEN rest ELSE e
       /\ \A k \in 1..Len(body) : body[k] \in rows
       /\ \A k \in 1..(Len(body) - 1) : body[k].id < body[k+1].id
       /\ Len(body) > 0 =>
             /\ Cardinality({r \in rows : r.id < body[1].id}) = s
             /\ Cardinality({r \in rows : /\ body[1].id <= r.id
                                          /\ r.id <= body[Len(body)].id}) = Len(body)

C12_NoNullStored ==
    \A i \in 1..Len(todos) : todos[i].title # None /\ todos[i].completed # None

\* C13: when the commit of a create, update or delete fails, the table the
\* later requests see is the table as it was before the request.
C13_FailedCommitRolledBack ==
    ( /\ req.op \in {"create", "update", "delete"}
      /\ req.fault = "commit" /\ resp.faulted )
    => todos = pre

\* the commit of an update that sets fields of a stored row failed
C13_Witness ==
    /\ req.op = "update" /\ req.fault = "commit" /\ resp.faulted
    /\ req.id \in Ids(pre)
    /\ req.body.fields_set # {}
    /\ todos = pre

\* the rows of a table with an id other than the given one
OtherRows(db, id) == {r \in Range(db) : r.id # id}

\* C14: get and list leave the table as it was; a create leaves every
\* stored row as it was and adds at most one row, exactly one when it
\* succeeds; an update or delete of an id, answered 200 or not, leaves
\* every row with another id as it was.
C14_OtherRowsUntouched ==
    /\ req.op \in {"get", "list"} => todos = pre
    /\ req.op = "create" =>
          /\ Len(pre) <= Len(todos) /\ Len(todos) <= Len(pre) + 1
          /\ SubSeq(todos, 1, Len(pre)) = pre
          /\ Succeeded => Len(todos) = Len(pre) + 1
    /\ req.op \in {"update", "delete"} =>
          /\ OtherRows(todos, req.id) = OtherRows(pre, req.id)
          /\ Ids(todos) \subseteq Ids(pre)

\* a delete of the second of two rows removed it and left the first
C14_Witness ==
    /\ req.op = "delete" /\ Succeeded
    /\ Len(pre) = 2 /\ req.id = pre[2].id
    /\ todos = <<pre[1]>>

====
